---- MODULE Spec2Model ----
(***************************************************************************)
(* Model of the feature-extraction stage of ft-total-perspective-vortex:   *)
(*   src/src/csp.py      CommonSpatialPattern (constructor, fit, transform)*)
(*   src/src/wavelet.py  HaarWaveletTransform (constructor, fit, transform,*)
(*                       haar_dwt_forward, haar_dwt_multilevel)            *)
(* Python exceptions are modelled as the outcome of a call: the name of    *)
(* the exception class and the source line that raises it.                 *)
(***************************************************************************)
EXTENDS Integers, Sequences, FiniteSets, TLC

VARIABLES
  X,             \* the trial tensor handed to CommonSpatialPattern.fit / transform
  y,             \* the label vector handed to CommonSpatialPattern.fit
  n_components,  \* attribute self.n_components of the CSP instance
  filters_,      \* attribute self.filters_
  patterns_,     \* attribute self.patterns_
  call,          \* the last call on the CSP instance and how it ended
  HX,            \* the trial tensor handed to HaarWaveletTransform.transform
  n_levels,      \* attribute self.n_levels of the Haar instance
  hcall          \* the last call on the Haar instance and how it ended

cspVars == <<X, y, n_components, filters_, patterns_, call>>
haarVars == <<HX, n_levels, hcall>>
vars == <<X, y, n_components, filters_, patterns_, call, HX, n_levels, hcall>>

(***************************************************************************)
(* Bounds of the model.                                                    *)
(***************************************************************************)
MaxComp == 2        \* constructor arguments n_components range over -MaxComp..MaxComp
MaxTrials == 3      \* trials in a tensor, and entries of a label vector
MaxChannels == 2    \* channels of a trial
MaxTimes == 3       \* time samples of a trial given to the CSP
MaxLevels == 3      \* constructor arguments n_levels range over -MaxLevels..MaxLevels
HaarMaxTrials == 2  \* trials of a tensor given to the Haar transform
HaarMaxChannels == 2 \* channels of a tensor given to the Haar transform
HaarMaxTimes == 4   \* time samples of a tensor given to the Haar transform
FMax == 40          \* the largest finite float, in the unit of Clip

(***************************************************************************)
(* Python values.  An attribute that was never assigned is NoAttr: reading *)
(* it raises AttributeError.                                               *)
(***************************************************************************)
NoAttr == [tag |-> "absent"]
PyNone == [tag |-> "None"]
PyInt(n) == [tag |-> "int", v |-> n]
NoCall == [op |-> "none", outcome |-> "none", line |-> 0]

Range(s) == {s[i] : i \in DOMAIN s}

RECURSIVE SumSeq(_)
SumSeq(s) == IF s = <<>> THEN 0 ELSE Head(s) + SumSeq(Tail(s))

SetMin(S) == CHOOSE m \in S : \A o \in S : m <= o

RECURSIVE SortedSeq(_)
SortedSeq(S) == IF S = {} THEN <<>> ELSE <<SetMin(S)>> \o SortedSeq(S \ {SetMin(S)})

\* np.unique(y): the distinct values of y in ascending order
np_unique(v) == SortedSeq(Range(v))

\* X[y == c]: the trials whose label is c, in order
RECURSIVE MaskSelect(_, _, _)
MaskSelect(trials, labels, c) ==
  IF trials = <<>> THEN <<>>
  ELSE (IF Head(labels) = c THEN <<Head(trials)>> ELSE <<>>)
         \o MaskSelect(Tail(trials), Tail(labels), c)

\* a Python slice bound i on a sequence of length L, clamped as Python clamps it
SliceIndex(i, L) ==
  LET j == IF i < 0 THEN i + L ELSE i
  IN IF j < 0 THEN 0 ELSE IF j > L THEN L ELSE j

\* s[:stop]
SliceTo(s, stop) == SubSeq(s, 1, SliceIndex(stop, Len(s)))

\* s[start:]
SliceFrom(s, start) == SubSeq(s, SliceIndex(start, Len(s)) + 1, Len(s))

(***************************************************************************)
(* CommonSpatialPattern.__init__                                           *)
(***************************************************************************)
\* the outcome of CommonSpatialPattern(n): line 8 tests n % 2 only; the raise
\* statement of line 9 evaluates str + int first, which is a TypeError
CSP_init(n) ==
  IF n % 2 # 0
    THEN [outcome |-> "TypeError", line |-> 9]
    ELSE [outcome |-> "ok", line |-> 11]

(***************************************************************************)
(* Trial tensors.  A tensor is its shape and its trials; a trial is a      *)
(* sequence of channels, a channel a sequence of integer samples, so every *)
(* covariance below is exact.  The tensors the model enumerates are built  *)
(* from four kinds of trial.                                               *)
(***************************************************************************)
\* sample t of channel c of a trial of kind p
Sample(p, c, t) ==
  CASE p = 0 -> 0                               \* all-zero trial
    [] p = 1 -> IF t = 1 THEN 1 ELSE 0          \* every channel the same pulse
    [] p = 2 -> IF t = c THEN 1 ELSE 0          \* channel c pulses at time c
    [] OTHER -> 1                               \* constant, non-zero trial

Trial(p, nc, nt) == [c \in 1..nc |-> [t \in 1..nt |-> Sample(p, c, t)]]

\* the kinds of the successive trials of a tensor repeat one of these cycles
PatCycles == {<<2>>, <<1>>, <<2, 1>>, <<0, 2>>, <<2, 0>>, <<2, 3>>}

Tensor(cyc, n, nc, nt) ==
  [n_trials |-> n, n_channels |-> nc, n_times |-> nt,
   trials |-> [i \in 1..n |-> Trial(cyc[((i - 1) % Len(cyc)) + 1], nc, nt)]]

Tensors ==
  {Tensor(cyc, n, nc, nt) : cyc \in PatCycles, n \in 0..MaxTrials,
                            nc \in 1..MaxChannels, nt \in 1..MaxTimes}

\* the labels of the successive trials repeat one of these cycles
LabelCycles == {<<0>>, <<0, 1>>, <<1, 0>>, <<0, 0, 1>>, <<1, 2>>, <<0, 1, 2>>}

LabelVector(cyc, n) == [i \in 1..n |-> cyc[((i - 1) % Len(cyc)) + 1]]

LabelVectors == {LabelVector(cyc, n) : cyc \in LabelCycles, n \in 0..MaxTrials}

(***************************************************************************)
(* Matrices are sequences of rows.  A float array of the program is        *)
(* [finite, num, den]: the exact rational matrix num/den when finite, and  *)
(* an array holding NaN or infinity otherwise.                             *)
(***************************************************************************)
Dot(a, b) == SumSeq([i \in 1..Len(a) |-> a[i] * b[i]])

ZeroMatrix(n) == [i \in 1..n |-> [j \in 1..n |-> 0]]

MatAdd(A, B) == [i \in 1..Len(A) |-> [j \in 1..Len(A[i]) |-> A[i][j] + B[i][j]]]

MatScale(k, A) == [i \in 1..Len(A) |-> [j \in 1..Len(A[i]) |-> k * A[i][j]]]

Trace(A) == SumSeq([i \in 1..Len(A) |-> A[i][i]])

\* the matrix without row r and column c
Minor(A, r, c) ==
  LET n == Len(A)
      keep(k, i) == IF i < k THEN i ELSE i + 1
  IN [i \in 1..(n - 1) |-> [j \in 1..(n - 1) |-> A[keep(r, i)][keep(c, j)]]]

RECURSIVE Det(_)
Det(A) ==
  IF Len(A) = 0 THEN 1
  ELSE IF Len(A) = 1 THEN A[1][1]
  ELSE SumSeq([j \in 1..Len(A) |->
                 (IF j % 2 = 1 THEN 1 ELSE -1) * A[1][j] * Det(Minor(A, 1, j))])

Leading(A, k) == [i \in 1..k |-> [j \in 1..k |-> A[i][j]]]

\* Sylvester's criterion
PositiveDefinite(A) == \A k \in 1..Len(A) : Det(Leading(A, k)) > 0

\* np.cov(trial): rows are variables, columns observations, ddof = 1.  num is
\* nt*(nt-1) times the covariance.  One observation gives the factor 1/0 and
\* 0 * inf = NaN in every entry.  np.cov ends with squeeze(): for one channel
\* the result is 0-dimensional.
np_cov(trial) ==
  LET nc == Len(trial)
      nt == Len(trial[1])
  IN [ndim |-> IF nc = 1 THEN 0 ELSE 2,
      finite |-> nt > 1,
      num |-> [i \in 1..nc |-> [j \in 1..nc |->
                 nt * Dot(trial[i], trial[j]) - SumSeq(trial[i]) * SumSeq(trial[j])]],
      den |-> nt * (nt - 1)]

\* cov / np.trace(cov) of line 27, for a 2-dimensional cov: a division of
\* float arrays, which never raises; x / 0.0 is NaN or infinity
TraceNormalise(cov) ==
  IF ~cov.finite \/ Trace(cov.num) = 0
    THEN [finite |-> FALSE, num |-> cov.num, den |-> 0]
    ELSE [finite |-> TRUE, num |-> cov.num, den |-> Trace(cov.num)]

\* cov_sum += cov of line 28
AddInto(acc, cov) ==
  IF ~acc.finite \/ ~cov.finite
    THEN [finite |-> FALSE, num |-> acc.num, den |-> 0]
    ELSE [finite |-> TRUE,
          num |-> MatAdd(MatScale(cov.den, acc.num), MatScale(acc.den, cov.num)),
          den |-> acc.den * cov.den]

\* the loop of lines 20-28 over the trials of one class, from the running sum
\* acc: the sum after the last trial, or the exception np.trace raises
RECURSIVE CovLoop(_, _)
CovLoop(trials, acc) ==
  IF trials = <<>> THEN [err |-> "none", sum |-> acc]
  ELSE LET cov == np_cov(Head(trials))
       IN IF cov.ndim < 2
            THEN [err |-> "ValueError", sum |-> acc]
            ELSE CovLoop(Tail(trials), AddInto(acc, TraceNormalise(cov)))

\* _compute_average_covariance_matrix(X_class): cov_avg, or the exception
compute_average_covariance_matrix(trials, nc) ==
  LET r == CovLoop(trials, [finite |-> TRUE, num |-> ZeroMatrix(nc), den |-> 1])
  IN IF r.err # "none" THEN [err |-> r.err, line |-> 27, avg |-> r.sum]
     ELSE [err |-> "none", line |-> 31,
           avg |-> [finite |-> r.sum.finite /\ Len(trials) > 0,
                    num |-> r.sum.num, den |-> r.sum.den * Len(trials)]]

(***************************************************************************)
(* CommonSpatialPattern.fit                                                *)
(***************************************************************************)
\* the ways a Cholesky factorisation of an exactly singular matrix can end in
\* floating point: the last pivot rounds to a positive number, or it does not
Roundings == {"pivot_positive", "pivot_not_positive"}

\* scipy.linalg.eigh(a, b), line 49: check_finite rejects NaN and infinity;
\* b must be positive definite.  The eigenvectors are named by the rank of
\* their eigenvalue in the ascending order eigh returns: column i is <<"v", i>>.
eigh(a, b, rounding) ==
  IF ~a.finite \/ ~b.finite THEN [err |-> "ValueError", vectors |-> <<>>]
  ELSE IF ~PositiveDefinite(b.num) /\ rounding = "pivot_not_positive"
    THEN [err |-> "LinAlgError", vectors |-> <<>>]
  ELSE [err |-> "none", vectors |-> [i \in 1..Len(a.num) |-> <<"v", i>>]]

\* eigenvectors[:, np.argsort(eigenvalues)[::-1]], lines 52-54: the columns in
\* descending order of eigenvalue
SortDescending(vectors) == [i \in 1..Len(vectors) |-> vectors[Len(vectors) + 1 - i]]

\* np.concatenate(*positional, axis=axis): the arrays to join are the FIRST
\* positional argument; a second positional argument is taken for axis, which
\* is then given twice
np_concatenate(positional, axis) ==
  IF Len(positional) # 1 THEN [err |-> "TypeError", value |-> <<>>]
  ELSE [err |-> "none",
        value |-> IF Len(positional[1]) = 0 THEN <<>>
                  ELSE IF Len(positional[1]) = 1 THEN positional[1][1]
                  ELSE positional[1][1] \o positional[1][2]]

\* lines 60-64: the call the source makes, with the two blocks as two
\* positional arguments
SelectComponents(cols, k) ==
  np_concatenate(<<SliceTo(cols, k \div 2), SliceFrom(cols, (-k) \div 2)>>, 1)

Array(nc, cols) == [tag |-> "array", n_channels |-> nc, cols |-> cols]

\* how fit ends: the exception and the line raising it, or "ok"; whether NaN
\* was written into a running covariance sum; how many class covariances were
\* started; and the attributes fit stores
FitEnd(outcome, line, nan, covs, f, p) ==
  [outcome |-> outcome, line |-> line, nan_in_cov_sum |-> nan, covs_started |-> covs,
   stores |-> outcome = "ok", filters |-> f, patterns |-> p]

\* a variant of the check of line 38 that only rejects fewer than two classes
AtLeastTwoClasses(classes) == Len(classes) >= 2

\* the condition asserted at line 38
TwoClasses(classes) == Len(classes) = 2

fit(k, Xt, yv, rounding) ==
  LET classes == np_unique(yv) IN
  IF ~TwoClasses(classes) THEN FitEnd("AssertionError", 38, FALSE, 0, NoAttr, NoAttr)
  ELSE IF Len(yv) # Xt.n_trials THEN FitEnd("IndexError", 40, FALSE, 0, NoAttr, NoAttr)
  ELSE
    LET c0 == compute_average_covariance_matrix(
                MaskSelect(Xt.trials, yv, classes[1]), Xt.n_channels)
        c1 == compute_average_covariance_matrix(
                MaskSelect(Xt.trials, yv, classes[2]), Xt.n_channels)
        e == eigh(c0.avg, c1.avg, rounding)
        sel == SelectComponents(SortDescending(e.vectors), k)
        nan == ~c0.avg.finite \/ ~c1.avg.finite
    IN IF c0.err # "none"
         THEN FitEnd(c0.err, c0.line, ~c0.avg.finite, 1, NoAttr, NoAttr)
       ELSE IF c1.err # "none" THEN FitEnd(c1.err, c1.line, nan, 2, NoAttr, NoAttr)
       ELSE IF e.err # "none" THEN FitEnd(e.err, 49, nan, 2, NoAttr, NoAttr)
       ELSE IF sel.err # "none" THEN FitEnd(sel.err, 60, nan, 2, NoAttr, NoAttr)
       ELSE FitEnd("ok", 69, nan, 2, Array(Xt.n_channels, sel.value),
                   [tag |-> "pinv", of |-> sel.value])

(***************************************************************************)
(* CommonSpatialPattern.transform                                          *)
(***************************************************************************)
\* np.log(np.var(row)) of line 87, ddof = 0: the variance is num/den; np.log
\* of 0.0 is -inf (a RuntimeWarning, not an exception)
LogVar(row) ==
  LET nt == Len(row)
      num == nt * Dot(row, row) - SumSeq(row) * SumSeq(row)
  IN IF num > 0 THEN [tag |-> "log", num |-> num, den |-> nt * nt]
                ELSE [tag |-> "-inf"]

\* filters_.T @ X[i] of line 84: one row per filter column
Project(cols, trial) ==
  [j \in 1..Len(cols) |->
     [t \in 1..Len(trial[1]) |->
        SumSeq([c \in 1..Len(trial) |-> cols[j][c] * trial[c][t]])]]

TransformEnd(outcome, line, value) == [outcome |-> outcome, line |-> line, value |-> value]

transform(k, f, Xt) ==
  IF f = NoAttr THEN TransformEnd("AttributeError", 76, <<>>)
  ELSE IF f = PyNone THEN TransformEnd("ValueError", 77, <<>>)
  ELSE IF k < 0 THEN TransformEnd("ValueError", 79, <<>>)
  ELSE IF Xt.n_trials > 0 /\ f.n_channels # Xt.n_channels
    THEN TransformEnd("ValueError", 84, <<>>)
  ELSE IF Xt.n_trials > 0 /\ Len(f.cols) # k /\ Len(f.cols) # 1
    THEN TransformEnd("ValueError", 88, <<>>)
  ELSE TransformEnd("ok", 91,
         [i \in 1..Xt.n_trials |->
            LET feats == [j \in 1..Len(f.cols) |-> LogVar(Project(f.cols, Xt.trials[i])[j])]
            IN [j \in 1..k |-> IF Len(feats) = 1 THEN feats[1] ELSE feats[j]]])

(***************************************************************************)
(* The CSP instance: construction, then any sequence of fit and transform  *)
(* on the tensor and label vector drawn at the start.                      *)
(***************************************************************************)
Constructed == n_components # NoAttr

HaarIdle == HX = <<>> /\ n_levels = NoAttr /\ hcall = NoCall

InitCSP ==
  /\ X \in Tensors
  /\ y \in LabelVectors
  /\ n_components = NoAttr
  /\ filters_ = NoAttr
  /\ patterns_ = NoAttr
  /\ call = NoCall
  /\ HaarIdle

\* CommonSpatialPattern(n_components=n)
Construct(n) ==
  /\ ~Constructed
  /\ LET r == CSP_init(n) IN
       /\ n_components' = IF r.outcome = "ok" THEN PyInt(n) ELSE NoAttr
       /\ call' = [op |-> "__init__", arg |-> n, outcome |-> r.outcome, line |-> r.line]
  /\ UNCHANGED <<X, y, filters_, patterns_, HX, n_levels, hcall>>

\* construct_pipeline_from_config(config), for a config whose cv_folds,
\* test_size and classifier_algorithm keep their defaults (the assertions of
\* lines 22, 25 and 26 hold): the assertions of lines 23 and 24, then the
\* Haar instance if use_wavelet, then the CSP instance
construct_pipeline_from_config(n, level, use_wavelet) ==
  IF ~(level > 0) THEN [outcome |-> "AssertionError", line |-> 23]
  ELSE IF ~(n > 0) THEN [outcome |-> "AssertionError", line |-> 24]
  ELSE IF CSP_init(n).outcome # "ok" THEN [outcome |-> CSP_init(n).outcome, line |-> 37]
  ELSE [outcome |-> "ok", line |-> 45]

ConstructPipeline(n, level, use_wavelet) ==
  /\ ~Constructed
  /\ LET r == construct_pipeline_from_config(n, level, use_wavelet) IN
       /\ n_components' = IF r.outcome = "ok" THEN PyInt(n) ELSE NoAttr
       /\ n_levels' = IF r.outcome = "ok" /\ use_wavelet THEN PyInt(level) ELSE NoAttr
       /\ call' = [op |-> "construct_pipeline_from_config", arg |-> n, level |-> level,
                   outcome |-> r.outcome, line |-> r.line]
  /\ UNCHANGED <<X, y, filters_, patterns_, HX, hcall>>

\* self.fit(X, y)
Fit(rounding) ==
  /\ Constructed
  /\ LET r == fit(n_components.v, X, y, rounding) IN
       /\ filters_' = IF r.stores THEN r.filters ELSE filters_
       /\ patterns_' = IF r.stores THEN r.patterns ELSE patterns_
       /\ call' = [op |-> "fit", outcome |-> r.outcome, line |-> r.line,
                   nan_in_cov_sum |-> r.nan_in_cov_sum, covs_started |-> r.covs_started,
                   returned |-> IF r.outcome = "ok" THEN "self" ELSE "nothing"]
  /\ UNCHANGED <<X, y, n_components, HX, n_levels, hcall>>

\* transform with a lazy default for the missing attribute
TransformStoringDefault ==
  /\ Constructed
  /\ LET r == transform(n_components.v, filters_, X) IN
       call' = [op |-> "transform", outcome |-> r.outcome, line |-> r.line,
                returned |-> r.value]
  /\ filters_' = IF filters_ = NoAttr THEN PyNone ELSE filters_
  /\ UNCHANGED <<X, y, n_components, patterns_, HX, n_levels, hcall>>

\* self.transform(X)
Transform ==
  /\ Constructed
  /\ LET r == transform(n_components.v, filters_, X) IN
       call' = [op |-> "transform", outcome |-> r.outcome, line |-> r.line,
                returned |-> r.value]
  /\ UNCHANGED <<X, y, n_components, filters_, patterns_, HX, n_levels, hcall>>

Next ==
  \/ \E n \in (-MaxComp)..MaxComp : Construct(n)
  \/ \E n \in (-MaxComp)..MaxComp : \E level \in {0, 1} : \E use_wavelet \in BOOLEAN :
       ConstructPipeline(n, level, use_wavelet)
  \/ \E rounding \in Roundings : Fit(rounding)
  \/ Transform

Spec == InitCSP /\ [][Next]_vars

(***************************************************************************)
(* transform as a function of the instance's attributes and its argument:  *)
(* the instance starts constructed, with its filter bank either never      *)
(* assigned or holding an integer matrix of shape (n_channels,             *)
(* n_components), the shape line 66 documents.                             *)
(***************************************************************************)
UnitColumn(nc, j) == [c \in 1..nc |-> IF c = ((j - 1) % nc) + 1 THEN 1 ELSE 0]

OnesColumn(nc) == [c \in 1..nc |-> 1]

FilterBanks(k) ==
  UNION {{Array(nc, [j \in 1..k |-> UnitColumn(nc, j)]),
          Array(nc, [j \in 1..k |-> OnesColumn(nc)])} : nc \in 1..MaxChannels}

InitFitted ==
  /\ X \in Tensors
  /\ y \in LabelVectors
  /\ \E k \in {n \in 1..MaxComp : CSP_init(n).outcome = "ok"} :
       /\ n_components = PyInt(k)
       /\ \/ filters_ = NoAttr /\ patterns_ = NoAttr
          \/ /\ filters_ \in FilterBanks(k)
             /\ patterns_ = [tag |-> "pinv", of |-> filters_.cols]
  /\ call = NoCall
  /\ HaarIdle

NextFitted ==
  \/ \E rounding \in Roundings : Fit(rounding)
  \/ Transform

SpecFitted == InitFitted /\ [][NextFitted]_vars

(***************************************************************************)
(* Claims about CommonSpatialPattern.                                      *)
(***************************************************************************)
\* a trial whose covariance is finite with trace 0: every channel constant
ZeroPower(trial) == np_cov(trial).finite /\ Trace(np_cov(trial).num) = 0

\* fit's arguments pass lines 37-41: two classes, one label per trial
ReachesCovariance == TwoClasses(np_unique(y)) /\ Len(y) = X.n_trials

\* every trial has positive power and the second class's average covariance
\* is positive definite: nothing numerical stands in fit's way
WellConditioned ==
  /\ ReachesCovariance
  /\ X.n_channels >= 2
  /\ \A i \in 1..X.n_trials : np_cov(X.trials[i]).finite /\ ~ZeroPower(X.trials[i])
  /\ PositiveDefinite(
       compute_average_covariance_matrix(
         MaskSelect(X.trials, y, np_unique(y)[2]), X.n_channels).avg.num)

\* C1: transform on an instance on which fit never completed fails with the
\* "not fitted" ValueError that transform's own check raises at line 77.
\* Stated for an instance with positive n_components.
C1_NotFittedValueError ==
  (call.op = "transform" /\ filters_ = NoAttr /\ n_components.v > 0)
    => (call.outcome = "ValueError" /\ call.line = 77)

\* C2: construction succeeds exactly for even positive n_components; odd or
\* non-positive n_components is rejected at construction.
C2_ConstructionValidates ==
  call.op = "__init__"
    => (call.outcome = "ok" <=> (call.arg % 2 = 0 /\ call.arg > 0))

\* C4: for a tensor with n_channels >= n_components and a label vector with
\* exactly two distinct values, fit completes, returns the instance and stores
\* the filter bank (n_channels, n_components): the eigenvectors of the
\* n_components/2 largest eigenvalues in non-increasing order, then those of
\* the n_components/2 smallest.  Stated here for the inputs most favourable to
\* fit: positive n_components and well-conditioned covariances.
C4_FitStoresFilterBank ==
  (/\ call.op = "fit"
   /\ WellConditioned
   /\ n_components.v > 0
   /\ X.n_channels >= n_components.v)
    => LET nc == X.n_channels
           h == n_components.v \div 2
       IN /\ call.outcome = "ok"
          /\ call.returned = "self"
          /\ filters_ = Array(nc, [j \in 1..(2 * h) |->
                                     IF j <= h THEN <<"v", nc + 1 - j>>
                                               ELSE <<"v", 2 * h + 1 - j>>])

\* C5: fit with a label vector whose number of distinct values is not two
\* fails with the AssertionError of line 38, before any covariance is computed
\* and without storing any fitted state.
C5_FitRejectsClassCount ==
  [][(call'.op = "fit" /\ Len(np_unique(y)) # 2)
       => /\ call'.outcome = "AssertionError"
          /\ call'.line = 38
          /\ call'.covs_started = 0
          /\ filters_' = filters_
          /\ patterns_' = patterns_]_vars

C5_Witness ==
  /\ call.op = "fit"
  /\ Len(np_unique(y)) = 3
  /\ X.n_trials = 3
  /\ call.outcome = "AssertionError"

\* C6: transform, successful or failing, leaves filters_, patterns_ and
\* n_components as they were, and a stored filter bank and pattern matrix
\* never change.
C6_FittedStateFrame ==
  [][/\ call'.op = "transform"
          => (filters_' = filters_ /\ patterns_' = patterns_
              /\ n_components' = n_components)
     /\ filters_ # NoAttr => (filters_' = filters_ /\ patterns_' = patterns_)]_vars

C6_Witness ==
  /\ call.op = "transform"
  /\ call.outcome = "ok"
  /\ X.n_trials > 0
  /\ filters_ # NoAttr

\* C7: when a trial given to fit has zero total power, the covariance
\* averaging fails at the trace division of line 27 and no NaN or infinity is
\* written into the running covariance sum.  Stated for an instance with
\* positive n_components and a tensor of two or more channels.
C7_ZeroPowerRaises ==
  (/\ call.op = "fit"
   /\ n_components.v > 0
   /\ ReachesCovariance
   /\ X.n_channels >= 2
   /\ \E i \in 1..X.n_trials : ZeroPower(X.trials[i]))
    => (call.outcome # "ok" /\ call.line = 27 /\ ~call.nan_in_cov_sum)

\* the values of a returned feature matrix
Features(m) == UNION {Range(m[i]) : i \in DOMAIN m}

Clip == 10

Fin(n, e) == [k |-> "fin", n |-> n, e |-> e]
Inf(s) == [k |-> "inf", s |-> s]
NaN == [k |-> "nan"]

Pow2(e) == 2 ^ e

\* |n / sqrt(2)^e| <= bound
WithinMagnitude(v, bound) == v.n * v.n <= bound * bound * Pow2(v.e)

FNeg(a) ==
  CASE a.k = "fin" -> Fin(-a.n, a.e)
    [] a.k = "inf" -> Inf(-a.s)
    [] OTHER -> NaN

\* a + b for two elements of one array (finite elements share the exponent e)
FAdd(a, b) ==
  CASE a.k = "nan" \/ b.k = "nan" -> NaN
    [] a.k = "inf" /\ b.k = "inf" -> IF a.s = b.s THEN a ELSE NaN
    [] a.k = "inf" -> a
    [] b.k = "inf" -> b
    [] OTHER -> IF WithinMagnitude(Fin(a.n + b.n, a.e), FMax)
                  THEN Fin(a.n + b.n, a.e)
                  ELSE Inf(IF a.n + b.n > 0 THEN 1 ELSE -1)

FSub(a, b) == FAdd(a, FNeg(b))

\* a / np.sqrt(2)
FDivSqrt2(a) == IF a.k = "fin" THEN Fin(a.n, a.e + 1) ELSE a

\* np.nan_to_num(v, nan=0.0, posinf=1e10, neginf=-1e10) on one value
nan_to_num(v) ==
  CASE v.k = "nan" -> Fin(0, 0)
    [] v.k = "inf" -> Fin(v.s * Clip, 0)
    [] OTHER -> v

(***************************************************************************)
(* HaarWaveletTransform                                                    *)
(***************************************************************************)
\* haar_dwt_forward(signal): pad an odd length with the last sample, then the
\* sums and differences of adjacent pairs over sqrt(2)
haar_dwt_forward(signal) ==
  LET padded == IF Len(signal) % 2 = 1
                  THEN Append(signal, signal[Len(signal)]) ELSE signal
      half == Len(padded) \div 2
  IN [approx |-> [i \in 1..half |-> FDivSqrt2(FAdd(padded[2 * i - 1], padded[2 * i]))],
      detail |-> [i \in 1..half |-> FDivSqrt2(FSub(padded[2 * i - 1], padded[2 * i]))]]

Reverse(s) == [i \in 1..Len(s) |-> s[Len(s) + 1 - i]]

\* the loop of lines 61-66 with `left` iterations of range(n_levels) to go
RECURSIVE MultilevelLoop(_, _, _)
MultilevelLoop(current, left, coeffs) ==
  IF left <= 0 \/ Len(current) < 2
    THEN [current |-> current, coeffs |-> coeffs]
    ELSE LET step == haar_dwt_forward(current)
         IN MultilevelLoop(step.approx, left - 1, Append(coeffs, step.detail))

\* the loop without the append of line 68: the final approximation is lost
multilevel_without_approximation(signal, levels) ==
  Reverse(MultilevelLoop(signal, levels, <<>>).coeffs)

\* the result without the reversal of line 69: the details in the order
\* they were computed, the final approximation last
multilevel_in_computation_order(signal, levels) ==
  LET r == MultilevelLoop(signal, levels, <<>>)
  IN Append(r.coeffs, r.current)

\* haar_dwt_multilevel(signal, n_levels): [approximation, detail_n, ..., detail_1]
haar_dwt_multilevel(signal, levels) ==
  LET r == MultilevelLoop(signal, levels, <<>>)
  IN Reverse(Append(r.coeffs, r.current))

RECURSIVE Concat(_)
Concat(arrays) == IF arrays = <<>> THEN <<>> ELSE Head(arrays) \o Concat(Tail(arrays))

TotalLen(arrays) == SumSeq([i \in 1..Len(arrays) |-> Len(arrays[i])])

\* line 32 left out: the output as computed
no_clean_up(data) == data

\* line 32: np.nan_to_num over the whole output
CleanUp(data) ==
  [i \in 1..Len(data) |-> [c \in 1..Len(data[i]) |->
     [t \in 1..Len(data[i][c]) |-> nan_to_num(data[i][c][t])]]]

\* HaarWaveletTransform.transform(X): X[0, 0, :] of line 20 needs a first
\* trial and a first channel
Haar_transform(levels, Xt) ==
  IF Xt.n_trials = 0 \/ Xt.n_channels = 0
    THEN [outcome |-> "IndexError", line |-> 20, shape |-> <<>>, data |-> <<>>]
    ELSE [outcome |-> "ok", line |-> 34,
          shape |-> <<Xt.n_trials, Xt.n_channels,
                      TotalLen(haar_dwt_multilevel(Xt.trials[1][1], levels))>>,
          data |-> CleanUp([i \in 1..Xt.n_trials |-> [c \in 1..Xt.n_channels |->
                      Concat(haar_dwt_multilevel(Xt.trials[i][c], levels))]])]

(***************************************************************************)
(* The Haar instance and the tensors given to it.                          *)
(***************************************************************************)
\* the samples: small, and of either sign at the edge of the float range
HaarVals == {-FMax, 1, FMax}

HaarSignals == UNION {[1..n -> {Fin(v, 0) : v \in HaarVals}] : n \in 0..HaarMaxTimes}

\* channel c of trial i is the signal rotated left by i + c - 2 samples
Rotated(s, r) == [t \in 1..Len(s) |-> s[((t - 1 + r) % Len(s)) + 1]]

HaarTensor(s, n, nc) ==
  [n_trials |-> n, n_channels |-> nc, n_times |-> Len(s),
   trials |-> [i \in 1..n |-> [c \in 1..nc |-> Rotated(s, i + c - 2)]]]

HaarTensors ==
  {HaarTensor(s, n, nc) : s \in HaarSignals, n \in 0..HaarMaxTrials,
                          nc \in 0..HaarMaxChannels}

CSPIdle ==
  /\ X = <<>> /\ y = <<>> /\ n_components = NoAttr
  /\ filters_ = NoAttr /\ patterns_ = NoAttr /\ call = NoCall

InitHaar ==
  /\ HX \in HaarTensors
  /\ n_levels = NoAttr
  /\ hcall = NoCall
  /\ CSPIdle

\* HaarWaveletTransform(n_levels=n): line 7 stores the argument unchecked
HaarConstruct(n) ==
  /\ n_levels = NoAttr
  /\ n_levels' = PyInt(n)
  /\ hcall' = [op |-> "__init__", outcome |-> "ok", line |-> 7]
  /\ UNCHANGED <<HX, X, y, n_components, filters_, patterns_, call>>

\* self.fit(X, y): returns self
HaarFit ==
  /\ n_levels # NoAttr
  /\ hcall' = [op |-> "fit", outcome |-> "ok", line |-> 10]
  /\ UNCHANGED <<HX, n_levels, X, y, n_components, filters_, patterns_, call>>

\* self.transform(X)
HaarTransform ==
  /\ n_levels # NoAttr
  /\ LET r == Haar_transform(n_levels.v, HX) IN
       hcall' = [op |-> "transform", outcome |-> r.outcome, line |-> r.line,
                 levels |-> n_levels.v, shape |-> r.shape, data |-> r.data]
  /\ UNCHANGED <<HX, n_levels, X, y, n_components, filters_, patterns_, call>>

NextHaar ==
  \/ \E n \in (-MaxLevels)..MaxLevels : HaarConstruct(n)
  \/ HaarFit
  \/ HaarTransform

SpecHaar == InitHaar /\ [][NextHaar]_vars

(***************************************************************************)
(* Claims about HaarWaveletTransform.                                      *)
(***************************************************************************)
\* C3: no HaarWaveletTransform instance has n_levels <= 0, and no transform
\* call runs with n_levels <= 0.
C3_LevelsPositive ==
  /\ n_levels # NoAttr => n_levels.v > 0
  /\ hcall.op = "transform" => hcall.levels > 0

IsPowerOfTwo(n) == \E e \in 0..n : Pow2(e) = n

\* the least e with 2^e >= n
Log2(n) == CHOOSE e \in 0..n : Pow2(e) >= n /\ \A d \in 0..(e - 1) : Pow2(d) < n

\* the values of a tensor's data
Values(data) == UNION {UNION {Range(data[i][c]) : c \in DOMAIN data[i]} : i \in DOMAIN data}

\* C9: when n_times is a power of two and n_levels >= log2(n_times), the
\* coefficient arrays of every signal have lengths summing to n_times, and
\* transform returns shape (n_trials, n_channels, n_times).
C9_CoefficientCount ==
  (/\ hcall.op = "transform"
   /\ HX.n_trials > 0 /\ HX.n_channels > 0
   /\ IsPowerOfTwo(HX.n_times)
   /\ hcall.levels >= Log2(HX.n_times))
    => /\ hcall.outcome = "ok"
       /\ hcall.shape = <<HX.n_trials, HX.n_channels, HX.n_times>>
       /\ \A i \in 1..HX.n_trials : \A c \in 1..HX.n_channels :
            /\ TotalLen(haar_dwt_multilevel(HX.trials[i][c], hcall.levels)) = HX.n_times
            /\ Len(hcall.data[i][c]) = HX.n_times

C9_Witness ==
  /\ hcall.op = "transform"
  /\ hcall.outcome = "ok"
  /\ HX.n_times = 4
  /\ hcall.levels = 2
  /\ hcall.shape = <<2, 1, 4>>

\* C10 as claimed: for a finite-valued input, every value transform returns
\* is not NaN and lies within [-1e10, 1e10].  Stated for an instance with
\* positive n_levels.
C10_WithinClip ==
  (hcall.op = "transform" /\ hcall.outcome = "ok" /\ hcall.levels > 0)
    => \A v \in Values(hcall.data) : v.k = "fin" /\ WithinMagnitude(v, Clip)

\* C10 as amended: for a finite-valued input, every value transform returns
\* is finite, neither NaN nor infinite; finite coefficients are returned as
\* computed, whatever their magnitude.
C10_FiniteOutput ==
  (hcall.op = "transform" /\ hcall.outcome = "ok")
    => /\ \A v \in Values(hcall.data) : v.k = "fin" /\ WithinMagnitude(v, FMax)
       /\ \A i \in 1..HX.n_trials : \A c \in 1..HX.n_channels :
            LET raw == Concat(haar_dwt_multilevel(HX.trials[i][c], hcall.levels))
            IN \A t \in 1..Len(raw) :
                 raw[t].k = "fin" => hcall.data[i][c][t] = raw[t]

\* an overflow replaced by 1e10 next to a finite coefficient beyond 1e10
C10_Witness ==
  /\ hcall.op = "transform"
  /\ hcall.outcome = "ok"
  /\ \E i \in 1..HX.n_trials : \E c \in 1..HX.n_channels :
       LET raw == Concat(haar_dwt_multilevel(HX.trials[i][c], hcall.levels))
       IN /\ \E t \in 1..Len(raw) : raw[t].k = "inf" /\ hcall.data[i][c][t] = Fin(Clip, 0)
          /\ \E t \in 1..Len(raw) : raw[t].k = "nan" /\ hcall.data[i][c][t] = Fin(0, 0)
          /\ \E t \in 1..Len(raw) : raw[t].k = "fin" /\ ~WithinMagnitude(raw[t], Clip)

(***************************************************************************)
(* The multilevel decomposition described level by level, without the      *)
(* loop: lengths halve, rounding up, and pair i of a running signal is its *)
(* samples 2i-1 and 2i, the last sample standing in for a missing one.     *)
(***************************************************************************)
CeilHalf(L) == (L + 1) \div 2

\* the running length after j one-level steps on a signal of length N
RECURSIVE LengthAfter(_, _)
LengthAfter(N, j) == IF j = 0 THEN N ELSE CeilHalf(LengthAfter(N, j - 1))

\* the number of steps after which the running length first drops below 2
StepsBelowTwo(N) ==
  CHOOSE j \in 0..N : /\ LengthAfter(N, j) < 2
                      /\ \A d \in 0..(j - 1) : LengthAfter(N, d) >= 2

StepCount(N, levels) ==
  IF levels < StepsBelowTwo(N) THEN levels ELSE StepsBelowTwo(N)

PairSecond(cur, i) == IF 2 * i <= Len(cur) THEN cur[2 * i] ELSE cur[Len(cur)]

PairApprox(cur) ==
  [i \in 1..CeilHalf(Len(cur)) |-> FDivSqrt2(FAdd(cur[2 * i - 1], PairSecond(cur, i)))]

PairDetail(cur) ==
  [i \in 1..CeilHalf(Len(cur)) |-> FDivSqrt2(FSub(cur[2 * i - 1], PairSecond(cur, i)))]

\* the running approximation after j steps
RECURSIVE RunningAfter(_, _)
RunningAfter(signal, j) ==
  IF j = 0 THEN signal ELSE PairApprox(RunningAfter(signal, j - 1))

\* the final approximation, then the details from the last step to the first
CoarsestFirst(signal, k) ==
  [m \in 1..(k + 1) |-> IF m = 1 THEN RunningAfter(signal, k)
                                 ELSE PairDetail(RunningAfter(signal, k + 1 - m))]

\* C11: for a signal of length N >= 1 and n_levels >= 1 the loop of
\* haar_dwt_multilevel ends after exactly k steps, k the smaller of n_levels
\* and the number of steps after which the running length drops below 2; a
\* step maps length L to an approximation and a detail of length ceil(L/2),
\* an odd L padded with its last sample; the result is k+1 arrays, the final
\* approximation first, then the details from the last computed to the first,
\* so the detail lengths do not decrease along the output.
C11_MultilevelSteps ==
  (/\ hcall.op = "transform"
   /\ HX.n_trials > 0 /\ HX.n_channels > 0
   /\ HX.n_times >= 1
   /\ hcall.levels >= 1)
    => \A i \in 1..HX.n_trials : \A c \in 1..HX.n_channels :
         LET signal == HX.trials[i][c]
             N == Len(signal)
             k == StepCount(N, hcall.levels)
             loop == MultilevelLoop(signal, hcall.levels, <<>>)
             out == haar_dwt_multilevel(signal, hcall.levels)
         IN /\ Len(loop.coeffs) = k
            /\ \A j \in 1..k :
                 LET cur == RunningAfter(signal, j - 1)
                     step == haar_dwt_forward(cur)
                 IN /\ Len(cur) = LengthAfter(N, j - 1)
                    /\ Len(step.approx) = CeilHalf(Len(cur))
                    /\ Len(step.detail) = CeilHalf(Len(cur))
                    /\ step.approx = PairApprox(cur)
                    /\ step.detail = PairDetail(cur)
            /\ Len(out) = k + 1
            /\ out = CoarsestFirst(signal, k)
            /\ Len(out[1]) = LengthAfter(N, k)
            /\ \A m \in 2..(k + 1) : Len(out[m]) = LengthAfter(N, k + 2 - m)
            /\ \A m \in 2..k : Len(out[m]) <= Len(out[m + 1])
            /\ hcall.outcome = "ok"
            /\ hcall.data[i][c] = [t \in 1..Len(Concat(out)) |-> nan_to_num(Concat(out)[t])]

\* an odd length, and the loop stopped by the running length before n_levels
\* is used up: 3 -> 2 -> 1 in two steps of three allowed
C11_Witness ==
  /\ hcall.op = "transform"
  /\ hcall.outcome = "ok"
  /\ HX.n_times = 3
  /\ hcall.levels = 3
  /\ HX.n_trials > 0 /\ HX.n_channels > 0
  /\ Len(haar_dwt_multilevel(HX.trials[1][1], hcall.levels)) = 3
  /\ Len(hcall.data[1][1]) = 4

====
